---- MODULE Spec2Model ----
(***************************************************************************)
(* Model of the mini workflow engine (app/engine.py), the graph-creation   *)
(* handler in front of it (app/main.py) and the built-in node functions    *)
(* (app/workflows.py).                                                     *)
(*                                                                         *)
(* Python values are modelled as records [t, v]: t is the Python type and  *)
(* v the payload.  A value of type "ref" is a reference to a mutable       *)
(* object (a list) that lives in `heap`; all other values are immutable.   *)
(* A dict is a function from a finite set of keys to values, so dict(d)    *)
(* (a shallow copy) copies the key -> value mapping and shares the         *)
(* referenced objects.                                                     *)
(***************************************************************************)
EXTENDS Integers, Sequences, FiniteSets

(* ------------------------------ bounds --------------------------------- *)

\* number of graphs created through create_graph (besides the built-in one)
\* in Spec; SpecCreate creates one more
MaxGraphs == 1
\* largest max_steps argument tried
MaxSteps == 2
\* number of caller-owned mutable objects reachable from an initial_state
MaxObjs == 1
\* largest max_loops (and, plus one, largest iterations) given to a
\* code_review run
MaxLoops == 3

(* ------------------------------- strings ------------------------------- *)

\* a source text with one function, a print(, a TODO and an import *
SAMPLE_CODE == "def f():\n    print('x')  # TODO\n    from os import *\n"

\* the strings that occur in states; a str value holds the index of its text
Strings == <<"", SAMPLE_CODE, "accepted", "stopped_max_loops">>

(* --------------------------- values and dicts -------------------------- *)

\* Python's None (Optional[str] current_node, edge targets, return values)
None == "<None>"

\* a str; v is the index of its text in Strings (below)
StrVal(text) == [t |-> "str", v |-> CHOOSE i \in 1..Len(Strings) : Strings[i] = text]
\* the text of a str value
TextOf(x) == Strings[x.v]
\* an int or a float; floats are kept in thousandths (0.8 is 800)
NumVal(n) == [t |-> "num", v |-> n]
\* a reference to a mutable list owned by whoever built the initial_state
RefVal(a) == [t |-> "ref", v |-> a]
\* a fresh immutable-in-practice result of a built-in tool (a list or a
\* dict); v is the one number the nodes read back from it
ObjVal(n) == [t |-> "obj", v |-> n]
BoolVal(b) == [t |-> "bool", v |-> IF b THEN 1 ELSE 0]
\* the float n + 0.5 (n >= 0) where a count is expected; v is int(n + 0.5)
FracVal(n) == [t |-> "frac", v |-> n]

Addr == 1..MaxObjs

EmptyDict == [k \in {} |-> None]

\* d.get(k, default)
Get(d, k, default) == IF k \in DOMAIN d THEN d[k] ELSE default

\* d[k] = v
Put(d, k, v) == [x \in (DOMAIN d) \cup {k} |-> IF x = k THEN v ELSE d[x]]

\* dict(d): a new dict with the same key -> value bindings (shallow copy)
ShallowCopy(d) == [k \in DOMAIN d |-> d[k]]

\* What a reader sees when it looks at dict d while the heap is h: every
\* reference is followed to the object's present contents.
View(d, h) ==
    [k \in DOMAIN d |-> IF d[k].t = "ref" THEN [t |-> "list", v |-> h[d[k].v]] ELSE d[k]]

(* ----------------------- tools (app/workflows.py) ---------------------- *)

\* The tools are given by their values on the strings in Strings.
\* len(tool_extract_functions(code)["functions"])
tool_extract_functions(code) == IF code = SAMPLE_CODE THEN 1 ELSE 0

\* tool_check_complexity(code)["complexity_score"], in thousandths:
\* min(1.0, lines/100 + control_flow_count/50); the sample has 3 lines
tool_check_complexity(code) == IF code = SAMPLE_CODE THEN 30 ELSE 0

\* tool_detect_issues(code)["issue_count"]: the sample has a TODO, a print(
\* and an import *
tool_detect_issues(code) == IF code = SAMPLE_CODE THEN 3 ELSE 0

Max(a, b) == IF a >= b THEN a ELSE b

\* tool_suggest_improvements(summary): [suggestions, quality_score], with
\* suggestions as the length of the list and the scores in thousandths
tool_suggest_improvements(complexity_score, issue_count) ==
    [suggestions |->   (IF complexity_score > 700 THEN 1 ELSE 0)
                     + (IF issue_count > 0 THEN 1 ELSE 0)
                     + (IF complexity_score <= 300 /\ issue_count = 0 THEN 1 ELSE 0),
     quality_score |-> Max(0, 1000 - (complexity_score \div 2) - 100 * issue_count)]

(* ------------------------ node functions (NodeFn) --------------------- *)

\* node names a caller may use in a graph spec
Names == {"a", "b"}

\* What one call node_def.func(run.state, tools) does: it returns `ret`
\* (a node name or None) or raises, and leaves the dict and the heap as given.
Returns(ret, st, h) == [raised |-> FALSE, ret |-> ret, state |-> st, heap |-> h]
Raises(st, h) == [raised |-> TRUE, ret |-> None, state |-> st, heap |-> h]

\* int(x) / float(x) succeed on numbers and bools; x.v is then int(x) for
\* a count and float(x) in thousandths for a score
IsNumber(x) == x.t \in {"num", "bool", "frac"}

\* bool(x) is False: 0, False, "", an empty list
Falsy(x, h) ==
    \/ x.t \in {"num", "bool"} /\ x.v = 0
    \/ x.t = "str" /\ TextOf(x) = ""
    \/ x.t = "ref" /\ h[x.v] = 0

node_extract(state, h) ==
    LET code == Get(state, "code", StrVal("")) IN
    IF code.t # "str"
    THEN {Raises(state, h)}   \* code.splitlines(): AttributeError
    ELSE {Returns(None, Put(state, "functions", ObjVal(tool_extract_functions(TextOf(code)))), h)}

node_check_complexity(state, h) ==
    LET code == Get(state, "code", StrVal("")) IN
    IF code.t # "str"
    THEN {Raises(state, h)}   \* code.splitlines(): AttributeError
    ELSE {Returns(None, Put(state, "complexity", ObjVal(tool_check_complexity(TextOf(code)))), h)}

node_detect_issues(state, h) ==
    LET code == Get(state, "code", StrVal(""))
        \* `"TODO" in code` and len(code) also work on a list
        n == IF code.t = "str" THEN tool_detect_issues(TextOf(code)) ELSE 0
    IN
    IF code.t \notin {"str", "ref", "obj"}
    THEN {Raises(state, h)}   \* "TODO" in code: TypeError
    ELSE {Returns(None, Put(Put(state, "issues", ObjVal(n)), "issue_count", NumVal(n)), h)}

node_suggest_improvements(state, h) ==
    LET complexity == Get(state, "complexity", ObjVal(0))
        issue_count == Get(state, "issue_count", NumVal(0))
        iterations == Get(state, "iterations", NumVal(0))
        \* complexity_info = state.get("complexity", {}) or {}
        empty_info == "complexity" \notin DOMAIN state \/ Falsy(complexity, h)
        score == IF empty_info THEN 0 ELSE complexity.v
        result == tool_suggest_improvements(score, issue_count.v)
    IN
    IF \/ ~empty_info /\ complexity.t # "obj"     \* complexity_info.get: AttributeError
       \/ ~IsNumber(issue_count)                  \* int(...)
       \/ ~IsNumber(iterations)                   \* int(...)
    THEN {Raises(state, h)}
    ELSE {Returns(None,
                  Put(Put(Put(state, "suggestions", ObjVal(result.suggestions)),
                          "quality_score", NumVal(result.quality_score)),
                      "iterations", NumVal(iterations.v + 1)),
                  h)}

\* faulty variant: the loop back to suggest_improvements is not bounded by
\* max_loops
node_evaluate_quality_Unbounded(state, h) ==
    LET threshold == Get(state, "threshold", NumVal(800))
        quality == Get(state, "quality_score", NumVal(0))
        iterations == Get(state, "iterations", NumVal(0))
        max_loops == Get(state, "max_loops", NumVal(3))
    IN
    IF ~IsNumber(threshold) \/ ~IsNumber(quality) \/ ~IsNumber(iterations) \/ ~IsNumber(max_loops)
    THEN {Raises(state, h)}
    ELSE IF quality.v >= threshold.v
    THEN {Returns(None, Put(Put(state, "status", StrVal("accepted")), "done", BoolVal(TRUE)), h)}
    ELSE {Returns("suggest_improvements", state, h)}

node_evaluate_quality(state, h) ==
    LET threshold == Get(state, "threshold", NumVal(800))
        quality == Get(state, "quality_score", NumVal(0))
        iterations == Get(state, "iterations", NumVal(0))
        max_loops == Get(state, "max_loops", NumVal(3))
    IN
    IF ~IsNumber(threshold) \/ ~IsNumber(quality) \/ ~IsNumber(iterations) \/ ~IsNumber(max_loops)
    THEN {Raises(state, h)}   \* float(...) / int(...)
    ELSE IF quality.v >= threshold.v
    THEN {Returns(None, Put(Put(state, "status", StrVal("accepted")), "done", BoolVal(TRUE)), h)}
    ELSE IF iterations.v >= max_loops.v
    THEN {Returns(None, Put(Put(state, "status", StrVal("stopped_max_loops")), "done", BoolVal(TRUE)), h)}
    ELSE {Returns("suggest_improvements", state, h)}

\* A node function that an embedding application registered itself
\* (NodeRegistry.register takes any callable).  A call either raises, or
\* writes and then returns None or any node name.  The write is one of:
\* state["code"] = <the sample string> (adds or replaces the key), or, when
\* state["code"] is a list, state["code"].append(...) / .pop() (changes the
\* list in place: its contents flip between empty and non-empty).
node_custom(state, h) ==
    LET written ==
            {<<Put(state, "code", StrVal(SAMPLE_CODE)), h>>}
            \cup (IF "code" \in DOMAIN state /\ state["code"].t = "ref"
                  THEN {<<state, [h EXCEPT ![state["code"].v] = 1 - @]>>}
                  ELSE {})
    IN {Returns(ret, w[1], w[2]) : ret \in Names \cup {None}, w \in written}
       \cup {Raises(state, h)}

\* the Node Registry after start-up: the five built-in functions
\* (register_code_review_workflow) and the application's own one
node_registry == {"extract", "check_complexity", "detect_issues",
                  "suggest_improvements", "evaluate_quality", "custom"}

\* node_registry.get(fn_name)(state, tools)
NodeFn(fn_name, state, h) ==
    CASE fn_name = "extract" -> node_extract(state, h)
      [] fn_name = "check_complexity" -> node_check_complexity(state, h)
      [] fn_name = "detect_issues" -> node_detect_issues(state, h)
      [] fn_name = "suggest_improvements" -> node_suggest_improvements(state, h)
      [] fn_name = "evaluate_quality" -> node_evaluate_quality(state, h)
      [] fn_name = "custom" -> node_custom(state, h)

(* ------------------------------- state --------------------------------- *)

VARIABLES
    graphs,     \* Engine.graphs: graph id -> GraphDef
    runs,       \* Engine.runs: run id -> RunRecord (run ids are 1, 2, ...)
    frames,     \* per run_graph call: its arguments, locals and position
    heap,       \* the mutable objects initial states refer to: Addr -> contents
    response,   \* how the latest create_graph / refused run_graph call ended
    got         \* what the latest get_run call gave its caller

vars == <<graphs, runs, frames, heap, response, got>>

\* the id of the built-in graph ("code_review"); created graphs get 1, 2, ...
\* in place of uuid4 strings
CODE_REVIEW_GRAPH_ID == 0

\* NodeDef(name, func); the description is not modelled
NodeDef(name, func) == [name |-> name, func |-> func]

\* GraphDef(id, name, nodes, edges, start_node); id is the key in `graphs`
\* and the display name is not modelled
GraphDef(nodes, edges, start_node) ==
    [nodes |-> nodes, edges |-> edges, start_node |-> start_node]

CodeReviewNames == {"extract", "check_complexity", "detect_issues",
                    "suggest_improvements", "evaluate_quality"}

\* the graph that register_code_review_workflow adds at start-up
CodeReviewGraph ==
    GraphDef([n \in CodeReviewNames |-> NodeDef(n, n)],
             [n \in CodeReviewNames |->
                CASE n = "extract" -> "check_complexity"
                  [] n = "check_complexity" -> "detect_issues"
                  [] n = "detect_issues" -> "suggest_improvements"
                  [] n = "suggest_improvements" -> "evaluate_quality"
                  [] n = "evaluate_quality" -> None],
             "extract")

\* RunRecord(id, graph_id, state, current_node); started_at is not modelled
RunRecord(graph_id, state, current_node) ==
    [graph_id |-> graph_id, state |-> state, current_node |-> current_node,
     log |-> <<>>, finished |-> FALSE, finished_at |-> None]

\* time.time()
Now == "<time>"

Init ==
    /\ graphs = [g \in {CODE_REVIEW_GRAPH_ID} |-> CodeReviewGraph]
    /\ runs = <<>>
    /\ frames = <<>>
    /\ heap = [a \in Addr |-> 0]
    /\ response = "none"
    /\ got = [status |-> "none", run_id |-> 0]

(* --------------------------- graph creation ----------------------------- *)

\* function names a request may give for a node
FnInputs == {"custom", "missing"}

\* the start_node a request may give (graphs that start at "b" are the
\* graphs that start at "a" with the two names exchanged)
StartInputs == {"a"}

\* all dicts with keys among K and values among V
Dicts(K, V) == UNION {[D -> V] : D \in SUBSET K}

\* the requests tried: node_specs is {n.name: n.function for n in payload.nodes}
Payloads ==
    [node_specs : Dicts(Names, FnInputs),
     edges : Dicts(Names, Names \cup {None}),
     start_node : StartInputs]

\* faulty variant: the validation loop checks the source of every edge only
InvalidEdge_SourceOnly(node_specs, edges) ==
    \E from_node \in DOMAIN edges : from_node \notin DOMAIN node_specs

\* main.create_graph, the validation loop: some edge has a source that is
\* not a declared node, or a non-null target that is not one
InvalidEdge(node_specs, edges) ==
    \E from_node \in DOMAIN edges :
        \/ from_node \notin DOMAIN node_specs
        \/ edges[from_node] # None /\ edges[from_node] \notin DOMAIN node_specs

\* faulty variant: the graph is built without the start_node check
create_graph_from_spec_NoStartCheck(node_specs, edges, start_node) ==
    IF \E node_name \in DOMAIN node_specs : node_specs[node_name] \notin node_registry
    THEN [status |-> "UnknownNodeFunction"]
    ELSE [status |-> "ok",
          graph |-> GraphDef([node_name \in DOMAIN node_specs |->
                                 NodeDef(node_name, node_specs[node_name])],
                             edges, start_node)]

\* Engine.create_graph_from_spec: the exception raised, or the graph built
create_graph_from_spec(node_specs, edges, start_node) ==
    IF \E node_name \in DOMAIN node_specs : node_specs[node_name] \notin node_registry
    THEN [status |-> "UnknownNodeFunction"]           \* KeyError
    ELSE LET nodes == [node_name \in DOMAIN node_specs |->
                          NodeDef(node_name, node_specs[node_name])]
         IN IF start_node \notin DOMAIN nodes
            THEN [status |-> "InvalidStartNode"]      \* ValueError
            ELSE [status |-> "ok", graph |-> GraphDef(nodes, edges, start_node)]

\* str(uuid.uuid4()) for a graph
NewGraphId == Cardinality(DOMAIN graphs)

\* Engine.add_graph: self.graphs[graph.id] = graph
add_graph(table, graph_id, graph) ==
    [g \in DOMAIN table \cup {graph_id} |-> IF g = graph_id THEN graph ELSE table[g]]

\* POST /graph/create
create_graph(payload) ==
    /\ IF InvalidEdge(payload.node_specs, payload.edges)
       THEN /\ response' = "InvalidEdgeReference"     \* HTTP 400
            /\ UNCHANGED graphs
       ELSE LET r == create_graph_from_spec(payload.node_specs, payload.edges,
                                            payload.start_node)
            IN /\ response' = r.status
               /\ IF r.status = "ok"
                  THEN graphs' = add_graph(graphs, NewGraphId, r.graph)
                  ELSE UNCHANGED graphs
    /\ UNCHANGED <<runs, frames, heap, got>>

(* ------------------------------ run_graph ------------------------------- *)

\* the initial_state arguments tried: no state, a source string, and a dict
\* whose "code" is a list the caller keeps a reference to
InitialStates ==
    {EmptyDict, [k \in {"code"} |-> StrVal(SAMPLE_CODE)]}
    \cup {[k \in {"code"} |-> RefVal(a)] : a \in Addr}

\* the max_steps arguments tried
MaxStepsInputs == (-1)..MaxSteps

\* the graph_id arguments tried: every id create_graph can hand out
GraphIdInputs == 0..MaxGraphs

\* the run ids uuid4 hands out, in this order
RunIds == {1}

\* str(uuid.uuid4()) for a run
NewRunId == Len(runs) + 1

\* faulty variant: the ceiling is tested with <=
LoopCondition_OffByOne(current_node, step, max_steps) ==
    current_node # None /\ step <= max_steps

\* the condition of the while loop
LoopCondition(current_node, step, max_steps) ==
    current_node # None /\ step < max_steps

\* faulty variant: a non-null static edge takes precedence over the override
NextNode_StaticFirst(graph, node_def, next_override) ==
    IF Get(graph.edges, node_def.name, None) # None
    THEN graph.edges[node_def.name]
    ELSE next_override

\* faulty variant: the default transition is missing: current_node = next_override
NextNode_OverrideOnly(graph, node_def, next_override) == next_override

\* the transition rule at the end of an iteration
NextNode(graph, node_def, next_override) ==
    IF next_override # None
    THEN next_override
    ELSE Get(graph.edges, node_def.name, None)    \* graph.edges.get(...)

\* faulty variant: `before` is run.state itself and not a copy of it, so it
\* shows the state as the node function left it
LogEntry_BeforeNotCopied(step, node_def, before, after, next_override) ==
    [step |-> step, node |-> node_def.name, before |-> after, after |-> after,
     next_override |-> next_override]

\* faulty variant: the step index is taken after the increment
LogEntry_OneBased(step, node_def, before, after, next_override) ==
    [step |-> step + 1, node |-> node_def.name, before |-> before, after |-> after,
     next_override |-> next_override]

\* the dict appended to run.log
LogEntry(step, node_def, before, after, next_override) ==
    [step |-> step, node |-> node_def.name, before |-> before, after |-> after,
     next_override |-> next_override]

\* faulty variant: a try/finally around the loop marks the run finished
Propagate_Finally(run, state) ==
    [run EXCEPT !.state = state, !.finished = TRUE, !.finished_at = Now]

\* A node function raised: nothing catches the exception, so run_graph is
\* left with the record as the node function left it
Propagate(run, state) == [run EXCEPT !.state = state]

\* faulty variant: the run table has a single slot
StoreRun_SingleSlot(table, run_id, run) == <<run>>

\* self.runs[run_id] = run
StoreRun(table, run_id, run) ==
    [i \in DOMAIN table \cup {run_id} |-> IF i = run_id THEN run ELSE table[i]]

\* what one completed iteration makes of the record: the log entry with the
\* two snapshots, and the transition
Advance(graph, run, step, out) ==
    LET node_def == graph.nodes[run.current_node]
        before == ShallowCopy(run.state)
        after == ShallowCopy(out.state)
    IN [run EXCEPT
          !.state = out.state,
          !.log = Append(@, LogEntry(step, node_def, before, after, out.ret)),
          !.current_node = NextNode(graph, node_def, out.ret)]

\* no run_graph call is in progress
Idle == \A r \in DOMAIN frames : frames[r].pc # "loop"

\* run_graph up to the loop: the graph lookup, the copy of initial_state and
\* the new RunRecord stored in the run table
run_graph_begin(graph_id, initial_state, max_steps) ==
    /\ IF graph_id \notin DOMAIN graphs
       THEN /\ response' = "GraphNotFound"            \* KeyError
            /\ UNCHANGED <<runs, frames>>
       ELSE /\ runs' = StoreRun(runs, NewRunId,
                                RunRecord(graph_id, ShallowCopy(initial_state),
                                          graphs[graph_id].start_node))
            /\ frames' = Append(frames, [pc |-> "loop", initial_state |-> initial_state,
                                         max_steps |-> max_steps, step |-> 0,
                                         error |-> None])
            /\ UNCHANGED response
    /\ UNCHANGED <<graphs, heap, got>>

\* one iteration of the while loop of run r
run_graph_step(r) ==
    LET run == runs[r]
        graph == graphs[run.graph_id]
        step == frames[r].step
    IN
    /\ frames[r].pc = "loop"
    /\ LoopCondition(run.current_node, step, frames[r].max_steps)
    /\ IF run.current_node \notin DOMAIN graph.nodes
       THEN \* graph.nodes[run.current_node]: KeyError leaves run_graph
            /\ frames' = [frames EXCEPT ![r].pc = "raised", ![r].error = "KeyError"]
            /\ UNCHANGED <<runs, heap>>
       ELSE LET node_def == graph.nodes[run.current_node]
            IN \E out \in NodeFn(node_def.func, run.state, heap) :
                 /\ heap' = out.heap
                 /\ IF out.raised
                    THEN \* the exception of the node function leaves run_graph
                         /\ runs' = [runs EXCEPT ![r] = Propagate(run, out.state)]
                         /\ frames' = [frames EXCEPT ![r].pc = "raised",
                                                     ![r].error = "NodeError"]
                    ELSE /\ runs' = [runs EXCEPT ![r] = Advance(graph, run, step, out)]
                         /\ frames' = [frames EXCEPT ![r].step = step + 1]
    /\ UNCHANGED <<graphs, response, got>>

\* faulty variant: a run stopped by the ceiling is left unfinished
Finish_UnlessCeiling(run) ==
    IF run.current_node = None
    THEN [run EXCEPT !.finished = TRUE, !.finished_at = Now]
    ELSE run

\* run.finished = True; run.finished_at = time.time()
Finish(run) == [run EXCEPT !.finished = TRUE, !.finished_at = Now]

\* the loop is left: the run is marked finished and returned
run_graph_end(r) ==
    /\ frames[r].pc = "loop"
    /\ ~LoopCondition(runs[r].current_node, frames[r].step, frames[r].max_steps)
    /\ runs' = [runs EXCEPT ![r] = Finish(runs[r])]
    /\ frames' = [frames EXCEPT ![r].pc = "returned"]
    /\ UNCHANGED <<graphs, heap, response, got>>

\* POST /graph/run: what the caller of the run operation is told when the
\* run_graph call ended with `error`.  except KeyError catches every
\* KeyError that leaves run_graph, whichever line raised it (an exception
\* of a node function is taken to be of another type: it is not caught).
run_graph_response(error) ==
    CASE error = None -> "ok"
      [] error = "KeyError" -> "GraphNotFound"        \* HTTP 404
      [] OTHER -> "InternalServerError"

(* ------------------------------- get_run -------------------------------- *)

\* the run_id arguments tried: the ids of two runs and an id never handed out
RunIdInputs == {1, 2, 3}

\* faulty variant: a record is found only once its run has finished
get_run_FinishedOnly(run_id) ==
    /\ got' = [status |-> IF run_id \in DOMAIN runs /\ runs[run_id].finished
                          THEN "ok" ELSE "RunNotFound",
               run_id |-> run_id]
    /\ UNCHANGED <<graphs, runs, frames, heap, response>>

\* Engine.get_run: KeyError when run_id is not in the run table; otherwise
\* the caller is given self.runs[run_id], the stored record itself and not a
\* copy, so what the caller holds is the table entry of that id
get_run(run_id) ==
    /\ got' = [status |-> IF run_id \in DOMAIN runs THEN "ok" ELSE "RunNotFound",
               run_id |-> run_id]
    /\ UNCHANGED <<graphs, runs, frames, heap, response>>

(* --------------------------- specification ------------------------------ *)

\* fewer than n graphs were created so far
CreatedFewerThan(n) == Cardinality(DOMAIN graphs) <= n

\* The engine is used as designed: synchronously, one call at a time.
Next ==
    \/ Idle /\ CreatedFewerThan(MaxGraphs) /\ \E payload \in Payloads : create_graph(payload)
    \/ Idle /\ NewRunId \in RunIds
            /\ \E graph_id \in GraphIdInputs, initial_state \in InitialStates,
                  max_steps \in MaxStepsInputs :
                 run_graph_begin(graph_id, initial_state, max_steps)
    \/ \E r \in DOMAIN frames : run_graph_step(r)
    \/ \E r \in DOMAIN frames : run_graph_end(r)

Spec == Init /\ [][Next]_vars

\* The graph-creation requests alone (create_graph reads and writes nothing
\* but the graph table), followed one graph further than in Spec.
NextCreate ==
    CreatedFewerThan(MaxGraphs + 1) /\ \E payload \in Payloads : create_graph(payload)

SpecCreate == Init /\ [][NextCreate]_vars

\* the run ids uuid4 hands out when two runs are made
TwoRunIds == {1, 2}

\* the graph-creation requests tried where two runs are made: one node
\* "a" with the application's function, with no edge, a null edge or an
\* edge to itself
FewPayloads ==
    [node_specs : {[n \in {"a"} |-> "custom"]},
     edges : Dicts({"a"}, {"a", None}),
     start_node : StartInputs]

\* One call at a time as in Spec, now with two runs, which may be given the
\* same initial_state, and with get_run calls in between.
NextRuns ==
    \/ Idle /\ CreatedFewerThan(MaxGraphs) /\ \E payload \in FewPayloads : create_graph(payload)
    \/ Idle /\ NewRunId \in TwoRunIds
            /\ \E graph_id \in GraphIdInputs, initial_state \in InitialStates,
                  max_steps \in MaxStepsInputs :
                 run_graph_begin(graph_id, initial_state, max_steps)
    \/ \E r \in DOMAIN frames : run_graph_step(r)
    \/ \E r \in DOMAIN frames : run_graph_end(r)
    \/ Idle /\ \E run_id \in RunIdInputs : get_run(run_id)

SpecRuns == Init /\ [][NextRuns]_vars

\* A caller other than main.py calls Engine.create_graph_from_spec itself:
\* nothing has checked the edges it passes
call_create_graph_from_spec(payload) ==
    LET r == create_graph_from_spec(payload.node_specs, payload.edges,
                                    payload.start_node)
    IN /\ response' = r.status
       /\ IF r.status = "ok"
          THEN graphs' = add_graph(graphs, NewGraphId, r.graph)
          ELSE UNCHANGED graphs
       /\ UNCHANGED <<runs, frames, heap, got>>

\* That caller later changes the edges dict it passed: edges[from_node] =
\* to_node.  GraphDef(edges=edges) keeps the caller's dict itself and not a
\* copy, so the stored graph's edges are that one dict.  (The nodes dict is
\* built by the engine, and the edges of code_review are a dict nothing
\* else holds: no caller can change those.)
caller_sets_edge(g, from_node, to_node) ==
    /\ g \in DOMAIN graphs \ {CODE_REVIEW_GRAPH_ID}
    /\ graphs' = [graphs EXCEPT ![g].edges = Put(@, from_node, to_node)]
    /\ UNCHANGED <<runs, frames, heap, response, got>>

\* del edges[from_node], by the same caller
caller_deletes_edge(g, from_node) ==
    /\ g \in DOMAIN graphs \ {CODE_REVIEW_GRAPH_ID}
    /\ from_node \in DOMAIN graphs[g].edges
    /\ graphs' = [graphs EXCEPT
                    ![g].edges = [k \in DOMAIN @ \ {from_node} |-> @[k]]]
    /\ UNCHANGED <<runs, frames, heap, response, got>>

\* The engine used as a library, one call at a time.
NextCaller ==
    \/ Idle /\ CreatedFewerThan(MaxGraphs)
            /\ \E payload \in Payloads : call_create_graph_from_spec(payload)
    \/ Idle /\ \E g \in DOMAIN graphs, from_node \in Names, to_node \in Names \cup {None} :
                 caller_sets_edge(g, from_node, to_node)
    \/ Idle /\ \E g \in DOMAIN graphs, from_node \in Names :
                 caller_deletes_edge(g, from_node)
    \/ Idle /\ NewRunId \in RunIds
            /\ \E graph_id \in GraphIdInputs, initial_state \in InitialStates,
                  max_steps \in MaxStepsInputs :
                 run_graph_begin(graph_id, initial_state, max_steps)
    \/ \E r \in DOMAIN frames : run_graph_step(r)
    \/ \E r \in DOMAIN frames : run_graph_end(r)
    \/ Idle /\ \E run_id \in RunIdInputs : get_run(run_id)

SpecCaller == Init /\ [][NextCaller]_vars

\* Two /graph/run requests served in parallel threads: each request body is
\* parsed into objects of its own, and the two run_graph calls are
\* interleaved at the node invocations.
RequestAddr == 1..(2 * MaxObjs)

\* the objects the body of the request that becomes run run_id is parsed into
OwnedBy(run_id) == {a \in RequestAddr : (a - 1) \div MaxObjs = run_id - 1}

\* the initial_state of that request
RequestStates(run_id) ==
    {EmptyDict, [k \in {"code"} |-> StrVal(SAMPLE_CODE)]}
    \cup {[k \in {"code"} |-> RefVal(a)] : a \in OwnedBy(run_id)}

InitConc ==
    /\ graphs = [g \in {CODE_REVIEW_GRAPH_ID} |-> CodeReviewGraph]
    /\ runs = <<>>
    /\ frames = <<>>
    /\ heap = [a \in RequestAddr |-> 0]
    /\ response = "none"
    /\ got = [status |-> "none", run_id |-> 0]

\* the ceilings of the two calls: one invocation, or the largest number tried
RequestMaxSteps == {1, MaxSteps}

\* the graph_id of that request: both requests name the same graph
RequestGraphIds(run_id) ==
    IF run_id = 1 THEN DOMAIN graphs ELSE {runs[1].graph_id}

NextConc ==
    \/ frames = <<>> /\ CreatedFewerThan(1) /\ \E payload \in FewPayloads : create_graph(payload)
    \/ /\ NewRunId \in TwoRunIds
       /\ \E graph_id \in RequestGraphIds(NewRunId),
             initial_state \in RequestStates(NewRunId),
             max_steps \in RequestMaxSteps :
            run_graph_begin(graph_id, initial_state, max_steps)
    \/ \E r \in DOMAIN frames : run_graph_step(r)
    \/ \E r \in DOMAIN frames : run_graph_end(r)

SpecConc == InitConc /\ [][NextConc]_vars

\* run_graph's default for max_steps, which POST /graph/run always uses
DEFAULT_MAX_STEPS == 100

\* a key that an initial state does not have
Absent == [t |-> "absent", v |-> 0]

\* The initial states given to runs of code_review: each of the keys the
\* nodes read is absent or has one of a few values (scores in thousandths,
\* counts as integers or as n + 0.5; a list as code, and a string as
\* iterations, are states a node raises on)
ReviewChoices ==
    [code : {Absent, StrVal(""), StrVal(SAMPLE_CODE)} \cup {RefVal(a) : a \in Addr},
     threshold : {Absent, NumVal(500), NumVal(1000)},
     quality_score : {Absent, NumVal(900)},
     iterations : {Absent, StrVal(""), FracVal(0)}
                  \cup {NumVal(n) : n \in 0..(MaxLoops + 1)},
     max_loops : {Absent, FracVal(MaxLoops - 1)}
                 \cup {NumVal(n) : n \in (-1)..MaxLoops}]

ReviewStates ==
    {[k \in {k \in DOMAIN c : c[k] # Absent} |-> c[k]] : c \in ReviewChoices}

\* the ceilings of those runs: one that stops the run right after the
\* first evaluate_quality, and the default
ReviewMaxSteps == {5, DEFAULT_MAX_STEPS}

\* Runs of the built-in graph, one call at a time.
NextReview ==
    \/ /\ NewRunId \in RunIds
       /\ \E initial_state \in ReviewStates, max_steps \in ReviewMaxSteps :
            run_graph_begin(CODE_REVIEW_GRAPH_ID, initial_state, max_steps)
    \/ \E r \in DOMAIN frames : run_graph_step(r)
    \/ \E r \in DOMAIN frames : run_graph_end(r)

SpecReview == Init /\ [][NextReview]_vars

\* The engine is queried while a run is under way: get_run calls (from
\* another thread) fall between any two steps of one run_graph call.
NextPeek ==
    \/ frames = <<>> /\ CreatedFewerThan(1) /\ \E payload \in FewPayloads : create_graph(payload)
    \/ /\ NewRunId \in RunIds
       /\ \E graph_id \in DOMAIN graphs, initial_state \in InitialStates,
             max_steps \in MaxStepsInputs :
            run_graph_begin(graph_id, initial_state, max_steps)
    \/ \E r \in DOMAIN frames : run_graph_step(r)
    \/ \E r \in DOMAIN frames : run_graph_end(r)
    \/ \E run_id \in RunIdInputs : get_run(run_id)

SpecPeek == Init /\ [][NextPeek]_vars

\* run_graph executed alone, from the loop test on: every position
\* [pc, error, step, run, heap] the call passes through in an execution
\* whose first Len(log) invocations returned and logged what `log` records
\* (with log = <<>>: every position of every execution)
RECURSIVE Alone(_, _, _, _, _, _)
Alone(graph, run, step, max_steps, h, log) ==
    {[pc |-> "loop", error |-> None, step |-> step, run |-> run, heap |-> h]}
    \cup
    IF ~LoopCondition(run.current_node, step, max_steps)
    THEN {[pc |-> "returned", error |-> None, step |-> step, run |-> Finish(run),
           heap |-> h]}
    ELSE IF run.current_node \notin DOMAIN graph.nodes
    THEN {[pc |-> "raised", error |-> "KeyError", step |-> step, run |-> run,
           heap |-> h]}
    ELSE UNION {IF out.raised
                THEN IF step < Len(log)
                     THEN {}
                     ELSE {[pc |-> "raised", error |-> "NodeError", step |-> step,
                            run |-> Propagate(run, out.state), heap |-> out.heap]}
                ELSE IF step < Len(log)
                        /\ Advance(graph, run, step, out).log[step + 1] # log[step + 1]
                     THEN {}
                     ELSE Alone(graph, Advance(graph, run, step, out), step + 1,
                                max_steps, out.heap, log) :
                out \in NodeFn(graph.nodes[run.current_node].func, run.state, h)}

(* ------------------------------ properties ----------------------------- *)

Last(seq) == seq[Len(seq)]

\* the graph a run walks
GraphOf(r) == graphs[runs[r].graph_id]

\* C1: whenever the latest node invocation of a run returned a non-null
\* value v, the run's current_node is v, whatever the static edge of that
\* node is (absent, null or another node); it stays v until the next
\* iteration and in the returned record.
C1_OverrideWins ==
    \A r \in DOMAIN runs :
        (Len(runs[r].log) > 0 /\ Last(runs[r].log).next_override # None)
            => runs[r].current_node = Last(runs[r].log).next_override

\* a node returned a name while its static edge is absent, null or another node
C1_Witness ==
    \E r \in DOMAIN runs :
        /\ Len(runs[r].log) > 0
        /\ LET e == Last(runs[r].log) IN
             /\ e.next_override # None
             /\ runs[r].current_node = e.next_override
             /\ \/ e.node \notin DOMAIN GraphOf(r).edges
                \/ GraphOf(r).edges[e.node] # e.next_override

\* C2: whenever the latest node invocation of a run returned null, the run's
\* current_node is the static edge of that node: edges[node] when the node
\* is a key of edges, and null when it has no entry.
C2_StaticEdgeOnNull ==
    \A r \in DOMAIN runs :
        (Len(runs[r].log) > 0 /\ Last(runs[r].log).next_override = None)
            => LET node == Last(runs[r].log).node
                   edges == GraphOf(r).edges
               IN /\ node \in DOMAIN edges => runs[r].current_node = edges[node]
                  /\ node \notin DOMAIN edges => runs[r].current_node = None

\* a run followed a static edge to another node and then stopped at a node
\* that has no entry in edges
C2_Witness ==
    \E r \in DOMAIN runs :
        LET log == runs[r].log
            edges == GraphOf(r).edges
        IN /\ Len(log) = 2
           /\ log[1].next_override = None /\ log[2].next_override = None
           /\ log[1].node \in DOMAIN edges /\ edges[log[1].node] = log[2].node
           /\ log[2].node \notin DOMAIN edges
           /\ runs[r].current_node = None

\* C3: a run_graph call never invokes more than max(0, max_steps) nodes
\* (an invocation that raised included), and its log never holds more than
\* max(0, max_steps) entries.
C3_StepCeiling ==
    \A r \in DOMAIN runs :
        LET invocations == frames[r].step
                           + (IF frames[r].error = "NodeError" THEN 1 ELSE 0)
        IN /\ invocations <= Max(0, frames[r].max_steps)
           /\ Len(runs[r].log) <= Max(0, frames[r].max_steps)

\* a run whose nodes kept naming a successor was stopped by the ceiling
C3_Witness ==
    \E r \in DOMAIN runs :
        /\ frames[r].pc = "returned"
        /\ frames[r].max_steps = MaxSteps
        /\ Len(runs[r].log) = MaxSteps
        /\ runs[r].current_node # None
        /\ \A i \in 1..Len(runs[r].log) : runs[r].log[i].next_override # None

\* C4 (as claimed): in every reachable state the current_node of every run
\* is null or a key of the nodes mapping of the run's graph.
C4_CurrentNodeValid ==
    \A r \in DOMAIN runs :
        \/ runs[r].current_node = None
        \/ runs[r].current_node \in DOMAIN GraphOf(r).nodes

\* C5: when a node function raises, the run's record stays in the run table
\* with finished = false and finished_at unset, its log holds exactly the
\* entries of the steps completed before (the failing step adds none), its
\* current_node still names the failing node, and the record is not touched
\* again.
C5_NodeFailureAborts ==
    [][\A r \in DOMAIN frames' :
         frames'[r].error = "NodeError" =>
            /\ frames'[r].pc = "raised"
            /\ r \in DOMAIN runs'
            /\ runs'[r].finished = FALSE
            /\ runs'[r].finished_at = None
            /\ Len(runs'[r].log) = frames'[r].step
            /\ r \in DOMAIN frames
            /\ runs'[r].log = runs[r].log
            /\ runs'[r].current_node = runs[r].current_node
            /\ runs'[r].current_node \in DOMAIN graphs[runs[r].graph_id].nodes
            /\ frames[r].error = "NodeError" => runs'[r] = runs[r]
      ]_vars

\* a node function raised in the second step of a run
C5_Witness ==
    \E r \in DOMAIN runs :
        /\ frames[r].error = "NodeError"
        /\ Len(runs[r].log) = 1
        /\ ~runs[r].finished

\* C6: every graph in the graph table has only valid edges: every source
\* key of edges and every non-null target is a key of nodes.
C6_EdgesValid ==
    \A g \in DOMAIN graphs :
        \A from_node \in DOMAIN graphs[g].edges :
            /\ from_node \in DOMAIN graphs[g].nodes
            /\ \/ graphs[g].edges[from_node] = None
               \/ graphs[g].edges[from_node] \in DOMAIN graphs[g].nodes

\* a graph created from a spec with a non-null edge and a null edge is stored
C6_Witness ==
    \E g \in DOMAIN graphs :
        /\ g # CODE_REVIEW_GRAPH_ID
        /\ \E n \in DOMAIN graphs[g].edges : graphs[g].edges[n] # None
        /\ \E n \in DOMAIN graphs[g].edges : graphs[g].edges[n] = None

\* C7: a create_graph_from_spec call fails with UnknownNodeFunction when some
\* function_name of node_specs is not in the Node Registry, and otherwise with
\* InvalidStartNode when start_node is not among node_specs; a failed call
\* leaves the graph table exactly as it was.
C7_FailedCreateChangesNothing ==
    [][\A payload \in Payloads :
         (/\ ~InvalidEdge(payload.node_specs, payload.edges)
          /\ create_graph(payload)) =>
            LET unknown == \E n \in DOMAIN payload.node_specs :
                              payload.node_specs[n] \notin node_registry
                bad_start == payload.start_node \notin DOMAIN payload.node_specs
            IN /\ unknown => response' = "UnknownNodeFunction"
               /\ (~unknown /\ bad_start) => response' = "InvalidStartNode"
               /\ (unknown \/ bad_start) => graphs' = graphs
               /\ (~unknown /\ ~bad_start) =>
                     /\ response' = "ok"
                     /\ DOMAIN graphs' = DOMAIN graphs \cup {NewGraphId}
                     /\ \A g \in DOMAIN graphs : graphs'[g] = graphs[g]
      ]_vars

\* a create call failed on its start_node after another had stored a graph
C7_Witness ==
    /\ response = "InvalidStartNode"
    /\ DOMAIN graphs = {CODE_REVIEW_GRAPH_ID, 1}

\* C8 (as claimed): nothing a run does is observable through the
\* initial_state its caller passed in: what the caller reads from it, nested
\* values included, never changes.
C8_InitialStateUntouched ==
    [][\A r \in DOMAIN frames :
         View(frames'[r].initial_state, heap') = View(frames[r].initial_state, heap)
      ]_vars

\* C9 (as claimed): once an entry is in a run's log, what its before and
\* after snapshots show never changes.
C9_SnapshotsStable ==
    [][\A r \in DOMAIN runs : \A i \in 1..Len(runs[r].log) :
         /\ View(runs'[r].log[i].before, heap') = View(runs[r].log[i].before, heap)
         /\ View(runs'[r].log[i].after, heap') = View(runs[r].log[i].after, heap)
      ]_vars

\* C10: the step fields of a run's log are 0, 1, ..., N-1 in log order,
\* where N, the number of completed node invocations, is the log's length.
C10_StepIndices ==
    \A r \in DOMAIN runs :
        /\ Len(runs[r].log) = frames[r].step
        /\ \A i \in 1..Len(runs[r].log) : runs[r].log[i].step = i - 1

\* a run has completed two invocations
C10_Witness ==
    \E r \in DOMAIN runs :
        /\ Len(runs[r].log) = 2
        /\ runs[r].log[1].step = 0 /\ runs[r].log[2].step = 1

\* C11: every graph in the graph table has a start_node that is a key of
\* its nodes, and a run that has not yet completed an invocation (nor been
\* aborted at its first one) stands at that start_node, a node of its graph.
C11_StartNodeValid ==
    /\ \A g \in DOMAIN graphs : graphs[g].start_node \in DOMAIN graphs[g].nodes
    /\ \A r \in DOMAIN runs :
          Len(runs[r].log) = 0 =>
             /\ runs[r].current_node = GraphOf(r).start_node
             /\ runs[r].current_node \in DOMAIN GraphOf(r).nodes

\* a run of a graph built by create_graph_from_spec was just created
C11_Witness ==
    /\ \E r \in DOMAIN runs :
          /\ runs[r].graph_id # CODE_REVIEW_GRAPH_ID
          /\ frames[r].pc = "loop" /\ frames[r].step = 0
          /\ runs[r].current_node = GraphOf(r).start_node
    /\ \E g \in DOMAIN graphs : g # CODE_REVIEW_GRAPH_ID

\* C12 (as claimed): a run_graph call none of whose node invocations raised
\* does not end in an exception, and once it has returned (with a ceiling
\* max_steps >= 0) its record has finished = true and finished_at set, and
\* either current_node is null or the log holds exactly max_steps entries.
C12_ReturnsFinished ==
    \A r \in DOMAIN runs :
        (frames[r].error # "NodeError" /\ frames[r].max_steps >= 0) =>
            /\ frames[r].pc # "raised"
            /\ frames[r].pc = "returned" =>
                  /\ runs[r].finished = TRUE
                  /\ runs[r].finished_at # None
                  /\ \/ runs[r].current_node = None
                     \/ Len(runs[r].log) = frames[r].max_steps

\* C13: when a run has made max_steps >= 1 invocations and is still at a
\* non-null node, no exception has left run_graph, the log holds exactly
\* max_steps entries and current_node is the successor the last invocation
\* chose; all the call can still do is return, and once it has returned the
\* record has finished = true.
C13_CeilingNotAnError ==
    \A r \in DOMAIN runs :
        (/\ frames[r].max_steps >= 1
         /\ frames[r].step = frames[r].max_steps
         /\ runs[r].current_node # None) =>
            LET last == Last(runs[r].log) IN
            /\ frames[r].error = None
            /\ frames[r].pc \in {"loop", "returned"}
            /\ Len(runs[r].log) = frames[r].max_steps
            /\ runs[r].current_node =
                  (IF last.next_override # None
                   THEN last.next_override
                   ELSE GraphOf(r).edges[last.node])
            /\ frames[r].pc = "loop" =>
                  (ENABLED run_graph_end(r)) /\ ~(ENABLED run_graph_step(r))
            /\ frames[r].pc = "returned" =>
                  runs[r].finished = TRUE /\ runs[r].finished_at # None

\* a node that returns its own name every time was run with the largest
\* ceiling and the call returned
C13_Witness ==
    \E r \in DOMAIN runs :
        /\ frames[r].pc = "returned"
        /\ frames[r].max_steps = MaxSteps
        /\ runs[r].finished
        /\ runs[r].current_node # None
        /\ \A i \in 1..MaxSteps :
              /\ runs[r].log[i].node = runs[r].current_node
              /\ runs[r].log[i].next_override = runs[r].current_node

\* what a reader of a Run Record sees while the heap is h
Seen(run, h) ==
    [state |-> View(run.state, h),
     log |-> [i \in DOMAIN run.log |->
                [run.log[i] EXCEPT !.before = View(@, h), !.after = View(@, h)]],
     current_node |-> run.current_node,
     finished |-> run.finished]

\* C14 (as claimed): once a Run Record has finished = true, no later
\* operation changes what its state, log, current_node or finished flag show.
C14_FinishedImmutable ==
    [][\A r \in DOMAIN runs :
         runs[r].finished =>
            /\ r \in DOMAIN runs'
            /\ Seen(runs'[r], heap') = Seen(runs[r], heap)
      ]_vars

C16_GraphImmutable ==
    [][/\ \A g \in DOMAIN graphs :
            g \in DOMAIN graphs' /\ graphs'[g] = graphs[g]
       /\ Cardinality(DOMAIN graphs') <= Cardinality(DOMAIN graphs) + 1
      ]_vars

\* C17: from the moment a run_graph call has made its record until it
\* returns, the record is in the run table with finished = false and a log
\* of exactly the steps completed so far, and every get_run call on its id
\* made in between succeeds and is given that record; finished is true only
\* once the call has returned.
C17_StoredBeforeLoop ==
    [][/\ \A r \in DOMAIN frames' :
            /\ r \in DOMAIN runs'
            /\ runs'[r].finished => frames'[r].pc = "returned"
            /\ frames'[r].pc = "loop" =>
                  /\ runs'[r].finished = FALSE
                  /\ Len(runs'[r].log) = frames'[r].step
       /\ \A run_id \in RunIdInputs :
            (/\ get_run(run_id)
             /\ run_id \in DOMAIN frames
             /\ frames[run_id].pc = "loop") =>
                /\ got'.status = "ok"
                /\ got'.run_id = run_id
                /\ runs'[got'.run_id].finished = FALSE
                /\ Len(runs'[got'.run_id].log) = frames[run_id].step
      ]_vars

\* get_run found the record of a run that has completed one step and has
\* not yet returned
C17_Witness ==
    /\ got.status = "ok"
    /\ got.run_id \in DOMAIN frames
    /\ frames[got.run_id].pc = "loop"
    /\ frames[got.run_id].step = 1
    /\ Len(runs[got.run_id].log) = 1
    /\ runs[got.run_id].finished = FALSE

\* C18 (as claimed): a run_graph call on a graph_id that is not in the
\* graph table signals GraphNotFound and changes neither table (no record,
\* no node invoked); and a run_graph call reports GraphNotFound to its
\* caller only when its graph_id is not in the graph table.
C18_GraphNotFound ==
    [][/\ \A graph_id \in GraphIdInputs, initial_state \in InitialStates,
             max_steps \in MaxStepsInputs :
            (/\ graph_id \notin DOMAIN graphs
             /\ run_graph_begin(graph_id, initial_state, max_steps)) =>
                /\ response' = "GraphNotFound"
                /\ runs' = runs /\ frames' = frames
                /\ graphs' = graphs /\ heap' = heap
       /\ \A r \in DOMAIN frames' :
            run_graph_response(frames'[r].error) = "GraphNotFound" =>
                runs'[r].graph_id \notin DOMAIN graphs'
      ]_vars

\* the number a node reads with int(state.get(key, default)) / float(...)
NumberAt(state, key, default) ==
    LET x == Get(state, key, NumVal(default)) IN IF IsNumber(x) THEN x.v ELSE default

\* the number of invocations of a node that a log records
Invocations(log, node) == Cardinality({i \in 1..Len(log) : log[i].node = node})

\* an initial state the code_review nodes are written for: code is a
\* string and the numbers they read are numbers
WellFormed(state) ==
    /\ Get(state, "code", StrVal("")).t = "str"
    /\ \A k \in {"threshold", "quality_score", "iterations", "max_loops"} :
          IsNumber(Get(state, k, NumVal(0)))

\* twice the value of state.get(key, default), for a count
TwiceAt(state, key, default) ==
    LET x == Get(state, key, NumVal(default)) IN
    IF x.t = "frac" THEN 2 * x.v + 1
    ELSE IF IsNumber(x) THEN 2 * x.v ELSE 2 * default

\* what C19 says of a run besides the number of suggest_improvements
\* invocations: evaluate_quality names a successor only while
\* quality_score < threshold and iterations < max_loops, and the successor
\* is suggest_improvements; no lookup of a node fails, and no node raises on
\* a well-formed initial state; and a run that returned without being cut
\* short by the ceiling has current_node null, state.done = true and
\* state.status 'accepted' or 'stopped_max_loops'
ReviewRunEnds(r) ==
    LET log == runs[r].log IN
    /\ \A i \in 1..Len(log) :
          (log[i].node = "evaluate_quality" /\ log[i].next_override # None) =>
              /\ log[i].next_override = "suggest_improvements"
              /\ NumberAt(log[i].before, "quality_score", 0)
                    < NumberAt(log[i].before, "threshold", 800)
              /\ NumberAt(log[i].before, "iterations", 0)
                    < NumberAt(log[i].before, "max_loops", 3)
    /\ frames[r].error # "KeyError"
    /\ WellFormed(frames[r].initial_state) => frames[r].error = None
    /\ (/\ frames[r].pc = "returned"
        /\ frames[r].step < frames[r].max_steps \/ runs[r].current_node = None) =>
          /\ runs[r].current_node = None
          /\ Last(log).node = "evaluate_quality"
          /\ Get(runs[r].state, "done", Absent) = BoolVal(TRUE)
          /\ Get(runs[r].state, "status", Absent)
                \in {StrVal("accepted"), StrVal("stopped_max_loops")}

C20_LogIsTrace ==
    \A r \in DOMAIN runs :
        LET log == runs[r].log
            edges == GraphOf(r).edges
        IN
        /\ Len(log) > 0 =>
              /\ log[1].node = GraphOf(r).start_node
              /\ log[1].before = frames[r].initial_state
        /\ \A i \in 1..(Len(log) - 1) :
              /\ log[i].next_override # None => log[i + 1].node = log[i].next_override
              /\ log[i].next_override = None =>
                    /\ log[i].node \in DOMAIN edges
                    /\ log[i + 1].node = edges[log[i].node]
              /\ log[i + 1].before = log[i].after
              /\ View(log[i + 1].before, heap) = View(log[i].after, heap)

\* the log of a run whose first node changed the state and named another
\* node, which was invoked next
C20_Witness ==
    \E r \in DOMAIN runs :
        LET log == runs[r].log IN
        /\ Len(log) = 2
        /\ log[1].before = frames[r].initial_state
        /\ log[1].before # log[1].after
        /\ log[1].next_override # None
        /\ log[1].next_override # log[1].node
        /\ log[2].node = log[1].next_override
        /\ log[2].before = log[1].after

====
